---- MODULE Spec2Model ----
(***************************************************************************)
(* Model of check_vertex_models.py: main() reads GCP_PROJECT / GCP_REGION, *)
(* probes a fixed list of Gemini models through lexoid.parse, classifies   *)
(* each probe in test_model(), and prints a summary and a recommendation.  *)
(*                                                                         *)
(* Text that the code inspects (exception messages) is a sequence of       *)
(* one-character strings, so that substring search, lower-casing and       *)
(* slicing are computed as Python computes them.                           *)
(***************************************************************************)
EXTENDS Integers, Sequences, FiniteSets, TLC

VARIABLES project, region, pc, idx, pending, calls, hist, result,
          available, unavailable, out

vars == <<project, region, pc, idx, pending, calls, hist, result,
          available, unavailable, out>>

(***************************************************************************)
(* Bounds                                                                  *)
(***************************************************************************)
\* number of text fragments an exception message is assembled from
MaxFrags == 2

(***************************************************************************)
(* Program constants                                                       *)
(***************************************************************************)
\* error_msg[:100]
ErrorMsgLimit == 100

\* os.environ.get(...) of a variable that is not set
Unset == "<unset>"

\* default of os.environ.get("GCP_REGION", "us-west1")
DefaultRegion == "us-west1"

\* the models list of main()
models ==
  << <<"gemini-1.5-flash", "GA - Recommended">>,
     <<"gemini-1.5-pro", "GA - High accuracy">>,
     <<"gemini-1.0-pro", "GA - Legacy">>,
     <<"gemini-2.0-flash-exp", "Experimental">>,
     <<"gemini-2.5-flash", "Preview">>,
     <<"gemini-2.5-pro", "Preview">>,
     <<"gemini-2.5-flash-lite", "Preview - Limited availability">> >>

\* the tuple tested by `("gemini-2.5-flash", "Preview") in available`
PreviewEntry == <<"gemini-2.5-flash", "Preview">>

(***************************************************************************)
(* Text                                                                    *)
(***************************************************************************)
UpperCase == <<"A","B","C","D","E","F","G","H","I","J","K","L","M",
               "N","O","P","Q","R","S","T","U","V","W","X","Y","Z">>
LowerCase == <<"a","b","c","d","e","f","g","h","i","j","k","l","m",
               "n","o","p","q","r","s","t","u","v","w","x","y","z">>

\* str.lower() of one character
LowerChar(c) ==
  IF \E i \in 1..Len(UpperCase) : UpperCase[i] = c
  THEN LowerCase[CHOOSE i \in 1..Len(UpperCase) : UpperCase[i] = c]
  ELSE c

\* str.lower()
Lower(s) == [i \in 1..Len(s) |-> LowerChar(s[i])]

\* the `in` operator on strings: needle occurs as a contiguous substring
Contains(s, needle) ==
  \E k \in 0..(Len(s) - Len(needle)) :
    \A j \in 1..Len(needle) : s[k + j] = needle[j]

\* s[:n]
Prefix(s, n) == IF Len(s) <= n THEN s ELSE SubSeq(s, 1, n)

S404 == <<"4","0","4">>
S400 == <<"4","0","0">>
SNotFound == <<"n","o","t"," ","f","o","u","n","d">>

\* str(KeyError('token_usage')) and str(KeyError('total'))
KeyErrTokenUsage == <<"'","t","o","k","e","n","_","u","s","a","g","e","'">>
KeyErrTotal == <<"'","t","o","t","a","l","'">>

(***************************************************************************)
(* What lexoid.parse can do: return a response or raise an exception       *)
(***************************************************************************)
\* A response is None or a dict; keys is the set of keys present.
Resp(none, keys, raw, tukeys, total) ==
  [none |-> none, keys |-> keys, raw |-> raw, tukeys |-> tukeys, total |-> total]

RespNone == Resp(TRUE, {}, "", {}, 0)

Returned(r) == [kind |-> "return", value |-> r, cls |-> "", msg |-> <<>>]
Raised(c, m) == [kind |-> "raise", value |-> RespNone, cls |-> c, msg |-> m]
NoCall == [kind |-> "nocall", value |-> RespNone, cls |-> "", msg |-> <<>>]

\* classes an `except Exception` clause catches, among those modelled
ExceptionClasses == {"Exception", "KeyError", "RuntimeError", "ValueError"}

(***************************************************************************)
(* Printed lines                                                           *)
(***************************************************************************)
Line(kind, model, label, detail, n) ==
  [kind |-> kind, model |-> model, label |-> label, detail |-> detail, n |-> n]

Simple(kind) == Line(kind, "", "", <<>>, 0)

(***************************************************************************)
(* test_model                                                              *)
(***************************************************************************)
\* bool(result): None and the empty dict are falsy
Truthy(r) == ~r.none /\ r.keys # {}

\* bool(result.get("raw"))
RawTruthy(r) == "raw" \in r.keys /\ r.raw # ""

\* the print of the except clause, lines 31-37
ExceptLine_Swapped(model_name, error_msg) ==
  IF Contains(error_msg, S400)
  THEN Line("format_issue", model_name, "", <<>>, 0)
  ELSE IF Contains(error_msg, S404) \/ Contains(Lower(error_msg), SNotFound)
  THEN Line("not_available", model_name, "", <<>>, 0)
  ELSE Line("error", model_name, "", Prefix(error_msg, ErrorMsgLimit), 0)

ExceptLine(model_name, error_msg) ==
  IF Contains(error_msg, S404) \/ Contains(Lower(error_msg), SNotFound)
  THEN Line("not_available", model_name, "", <<>>, 0)
  ELSE IF Contains(error_msg, S400)
  THEN Line("format_issue", model_name, "", <<>>, 0)
  ELSE Line("error", model_name, "", Prefix(error_msg, ErrorMsgLimit), 0)

\* `except Exception as e`: which exception classes the clause catches
ExceptCatches_KeyErrorOnly(cls) == cls = "KeyError"

ExceptCatches(cls) == cls \in ExceptionClasses

\* the except clause as a whole: what is printed, what is returned, and
\* whether the exception leaves test_model
Handle(model_name, cls, error_msg, printed) ==
  IF ExceptCatches(cls)
  THEN [ret |-> FALSE, escaped |-> FALSE,
        lines |-> Append(printed, ExceptLine(model_name, error_msg))]
  ELSE [ret |-> FALSE, escaped |-> TRUE, lines |-> printed]

\* line 10
TestingLine(model_name) == Line("testing", model_name, "", <<>>, 0)

\* lines 12-38, from the moment parse() returns or raises
TestModelAfterParse(model_name, o) ==
  IF o.kind = "return"
  THEN IF Truthy(o.value) /\ RawTruthy(o.value)
       THEN LET ok == <<Line("available", model_name, "", <<>>, 0)>>
            IN  IF "token_usage" \notin o.value.keys
                THEN Handle(model_name, "KeyError", KeyErrTokenUsage, ok)
                ELSE IF "total" \notin o.value.tukeys
                THEN Handle(model_name, "KeyError", KeyErrTotal, ok)
                ELSE [ret |-> TRUE, escaped |-> FALSE,
                      lines |-> Append(ok, Line("tokens", model_name, "", <<>>,
                                                o.value.total))]
       ELSE [ret |-> FALSE, escaped |-> FALSE,
             lines |-> <<Line("no_response", model_name, "", <<>>, 0)>>]
  ELSE Handle(model_name, o.cls, o.msg, <<>>)

(***************************************************************************)
(* main                                                                    *)
(***************************************************************************)
\* `if not project`
NotProject_NoneOnly(p) == p = Unset

NotProject(p) == p = Unset \/ p = ""

\* os.environ.get("GCP_REGION", "us-west1")
EffectiveRegion(r) == IF r = Unset THEN DefaultRegion ELSE r

\* lines 49-50
RemediationLines == <<Simple("error_no_project"), Simple("remediation")>>

\* lines 53-58 and 74
BannerLines(p, r) ==
  <<Simple("rule"), Simple("title"), Simple("rule"),
    Line("project", "", p, <<>>, 0),
    Line("region", "", EffectiveRegion(r), <<>>, 0),
    Simple("rule"), Simple("progress")>>

\* lines 81-84, the available list
NextAvailable_Prepend(res, av, entry) == IF res THEN <<entry>> \o av ELSE av

NextAvailable(res, av, entry) == IF res THEN Append(av, entry) ELSE av

\* lines 81-84, the unavailable list
NextUnavailable_Always(res, un, entry) == Append(un, entry)

NextUnavailable(res, un, entry) == IF res THEN un ELSE Append(un, entry)

\* one bullet per entry of a bucket, lines 92-93 and 96-97
Bullets(bucket) ==
  [i \in 1..Len(bucket) |-> Line("bullet", bucket[i][1], bucket[i][2], <<>>, 0)]

\* lines 87-97
SummaryLines_Swapped(av, un) ==
  <<Simple("rule"), Simple("summary"), Simple("rule")>>
  \o <<Line("available_count", "", "", <<>>, Len(un))>> \o Bullets(av)
  \o <<Line("unavailable_count", "", "", <<>>, Len(av))>> \o Bullets(un)

SummaryLines(av, un) ==
  <<Simple("rule"), Simple("summary"), Simple("rule")>>
  \o <<Line("available_count", "", "", <<>>, Len(av))>> \o Bullets(av)
  \o <<Line("unavailable_count", "", "", <<>>, Len(un))>> \o Bullets(un)

InSeq(x, s) == \E i \in 1..Len(s) : s[i] = x

\* lines 100-115
RecommendationLines_Any25(av) ==
  <<Simple("rule"), Simple("recommendation"), Simple("rule")>> \o
  (IF \E i \in 1..Len(av) : av[i][2] = "Preview"
   THEN <<Simple("two_options")>>
   ELSE <<Simple("single_option")>>)

RecommendationLines(av) ==
  <<Simple("rule"), Simple("recommendation"), Simple("rule")>> \o
  (IF InSeq(PreviewEntry, av)
   THEN <<Simple("two_options")>>
   ELSE <<Simple("single_option")>>)

(***************************************************************************)
(* Inputs                                                                  *)
(***************************************************************************)
\* a response that carries everything test_model reads
RespFull == Resp(FALSE, {"raw", "token_usage"}, "hello", {"total"}, 42)
\* {"raw": "hello"}: content, but no token_usage entry
RespNoUsage == Resp(FALSE, {"raw"}, "hello", {}, 0)
Msg404 == <<"4","0","4"," ","n","o","t"," ","f","o","u","n","d">>
Msg400 == <<"4","0","0"," ","b","a","d">>

\* what the parse stub does for one candidate in a run of main(): a full
\* response, a response without token_usage, a not-found error, a 400 error
MainOutcomes ==
  { Returned(RespFull), Returned(RespNoUsage),
    Raised("RuntimeError", Msg404), Raised("ValueError", Msg400) }

\* dict responses: raw absent / "" / "hello", token_usage absent / {} /
\* {"total": 42}, with or without an unrelated "title" key
Responses ==
  {RespNone} \cup
  { Resp(FALSE,
         (IF rw = "absent" THEN {} ELSE {"raw"})
           \cup (IF tu = "absent" THEN {} ELSE {"token_usage"})
           \cup (IF ti THEN {"title"} ELSE {}),
         IF rw = "text" THEN "hello" ELSE "",
         IF tu = "total" THEN {"total"} ELSE {},
         IF tu = "total" THEN 42 ELSE 0)
    : rw \in {"absent", "empty", "text"},
      tu \in {"absent", "nototal", "total"},
      ti \in BOOLEAN }

Pad99 == [i \in 1..(ErrorMsgLimit - 1) |-> "x"]

Fragments ==
  { S404, S400, <<"4","0">>, <<"4">>, <<"0">>,
    <<"n","o","t">>, <<" ","f","o","u","n","d">>,
    <<"N","o","T">>, <<" ","F","O","U","N","D">>,
    <<"x">>, Pad99 }

RECURSIVE Messages(_)
Messages(n) ==
  IF n = 0 THEN {<< >>}
  ELSE LET prev == Messages(n - 1)
       IN  prev \cup { m \o f : m \in prev, f \in Fragments }

TMOutcomes ==
  { Returned(r) : r \in Responses } \cup
  { Raised(c, m) : c \in {"RuntimeError", "ValueError"}, m \in Messages(MaxFrags) }

(***************************************************************************)
(* A run of main()                                                         *)
(***************************************************************************)
Init ==
  /\ project \in {Unset, "", "demo"}
  /\ region \in {Unset, "europe-west4"}
  /\ pc = "start"
  /\ idx = 1
  /\ pending = NoCall
  /\ calls = [k \in 1..Len(models) |-> 0]
  /\ hist = << >>
  /\ result = << >>
  /\ available = << >>
  /\ unavailable = << >>
  /\ out = << >>

\* lines 45-58 and 74-77
CheckEnv ==
  /\ pc = "start"
  /\ IF NotProject(project)
     THEN /\ out' = out \o RemediationLines
          /\ pc' = "done"
     ELSE /\ out' = out \o BannerLines(project, region)
          /\ pc' = "loop"
  /\ UNCHANGED <<project, region, idx, pending, calls, hist, result,
                 available, unavailable>>

\* line 79 (next item), line 80 up to the call of parse at line 14
ProbeCall ==
  /\ pc = "loop"
  /\ idx <= Len(models)
  /\ \E o \in MainOutcomes : pending' = o
  /\ out' = Append(out, TestingLine(models[idx][1]))
  /\ calls' = [calls EXCEPT ![idx] = @ + 1]
  /\ pc' = "parse"
  /\ UNCHANGED <<project, region, idx, hist, result, available, unavailable>>

\* parse returns or raises: rest of test_model, then lines 81-84
ProbeReturn ==
  /\ pc = "parse"
  /\ LET r == TestModelAfterParse(models[idx][1], pending)
     IN  /\ out' = out \o r.lines
         /\ hist' = Append(hist, pending)
         /\ pending' = NoCall
         /\ IF r.escaped
            THEN /\ pc' = "crashed"
                 /\ UNCHANGED <<idx, result, available, unavailable>>
            ELSE /\ pc' = "loop"
                 /\ result' = <<r.ret>>
                 /\ available' = NextAvailable(r.ret, available, models[idx])
                 /\ unavailable' = NextUnavailable(r.ret, unavailable, models[idx])
                 /\ idx' = idx + 1
  /\ UNCHANGED <<project, region, calls>>

\* loop exhausted: lines 87-97
Summary ==
  /\ pc = "loop"
  /\ idx > Len(models)
  /\ out' = out \o SummaryLines(available, unavailable)
  /\ pc' = "recommend"
  /\ UNCHANGED <<project, region, idx, pending, calls, hist, result,
                 available, unavailable>>

\* lines 100-115
Recommendation ==
  /\ pc = "recommend"
  /\ out' = out \o RecommendationLines(available)
  /\ pc' = "done"
  /\ UNCHANGED <<project, region, idx, pending, calls, hist, result,
                 available, unavailable>>

Next == CheckEnv \/ ProbeCall \/ ProbeReturn \/ Summary \/ Recommendation

Spec == Init /\ [][Next]_vars

\* the script is one sequential process: it keeps running until it returns
FairSpec == Spec /\ WF_vars(Next)

(***************************************************************************)
(* test_model alone, applied to one input                                  *)
(***************************************************************************)
InitTM ==
  /\ project = "demo"
  /\ region = Unset
  /\ pc = "tm"
  /\ idx = 1
  /\ pending = NoCall
  /\ calls = [k \in 1..Len(models) |-> 0]
  /\ hist = << >>
  /\ result = << >>
  /\ available = << >>
  /\ unavailable = << >>
  /\ out = << >>

\* lines 10-20
TMCall ==
  /\ pc = "tm"
  /\ \E o \in TMOutcomes : pending' = o
  /\ out' = Append(out, TestingLine(models[idx][1]))
  /\ calls' = [calls EXCEPT ![idx] = @ + 1]
  /\ pc' = "tm_parse"
  /\ UNCHANGED <<project, region, idx, hist, result, available, unavailable>>

\* lines 22-38
TMReturn ==
  /\ pc = "tm_parse"
  /\ LET r == TestModelAfterParse(models[idx][1], pending)
     IN  /\ out' = out \o r.lines
         /\ hist' = Append(hist, pending)
         /\ pending' = NoCall
         /\ IF r.escaped
            THEN pc' = "crashed" /\ UNCHANGED result
            ELSE pc' = "tm_done" /\ result' = <<r.ret>>
  /\ UNCHANGED <<project, region, idx, calls, available, unavailable>>

NextTM == TMCall \/ TMReturn

SpecTM == InitTM /\ [][NextTM]_vars

TypeOK ==
  /\ pc \in {"start", "loop", "parse", "recommend", "done", "crashed",
             "tm", "tm_parse", "tm_done"}
  /\ idx \in 1..(Len(models) + 1)
  /\ Len(result) <= 1

(***************************************************************************)
(* Vocabulary of the properties                                            *)
(***************************************************************************)
ProjectSet == project # Unset /\ project # ""

NumModels == Len(models)

\* number of probes whose classification is complete
Completed == Len(hist)

Occurrences(x, s) == Cardinality({i \in 1..Len(s) : s[i] = x})

\* position of a candidate name in the models list
ModelIdx(name) == CHOOSE k \in 1..NumModels : models[k][1] = name

StatusKinds == {"available", "no_response", "not_available", "format_issue", "error"}

\* status lines printed so far for one candidate
StatusLinesOf(name) ==
  {i \in 1..Len(out) : out[i].model = name /\ out[i].kind \in StatusKinds}

Printed(kind) == \E i \in 1..Len(out) : out[i].kind = kind

PrintedFor(kind, name) ==
  \E i \in 1..Len(out) : out[i].kind = kind /\ out[i].model = name

\* C1: every completed probe put its candidate in exactly one bucket, once;
\* the two bucket lengths add up to the number of completed probes, and a
\* run that got past the configuration check ends with all candidates placed.
C1_Partition ==
  /\ Len(available) + Len(unavailable) = Completed
  /\ \A k \in 1..NumModels :
       Occurrences(models[k], available) + Occurrences(models[k], unavailable)
         = (IF k <= Completed THEN 1 ELSE 0)
  /\ (pc = "done" /\ ProjectSet) =>
       Len(available) + Len(unavailable) = NumModels

C1_Witness ==
  pc = "done" /\ Len(available) = 3 /\ Len(unavailable) = 4

\* the input test_model was applied to, once it has been applied
TMInput == hist[1]

TMFinished == pc \in {"tm_done", "crashed"} /\ Len(hist) = 1

\* C2 (as claimed): a returned response is classified available exactly
\* when it is non-empty with a non-empty "raw"; every other returned
\* response is unavailable with the "no response" line.
C2_Claim ==
  (TMFinished /\ TMInput.kind = "return") =>
    LET r == TMInput.value
        good == ~r.none /\ r.keys # {} /\ "raw" \in r.keys /\ r.raw # ""
    IN  /\ pc = "tm_done"
        /\ result = <<good>>
        /\ ~good => (Len(out) = 2 /\ out[2].kind = "no_response")

\* "not found" in any letter case, stated position by position
UpperOf(c) ==
  IF \E i \in 1..Len(LowerCase) : LowerCase[i] = c
  THEN UpperCase[CHOOSE i \in 1..Len(LowerCase) : LowerCase[i] = c]
  ELSE c

HasAnyCase(m, needle) ==
  \E k \in 0..(Len(m) - Len(needle)) :
    \A j \in 1..Len(needle) : m[k + j] \in {needle[j], UpperOf(needle[j])}

Has(m, needle) ==
  \E k \in 0..(Len(m) - Len(needle)) : SubSeq(m, k + 1, k + Len(needle)) = needle

First100(m) == [i \in 1..(IF Len(m) < 100 THEN Len(m) ELSE 100) |-> m[i]]

\* C3: a raised error gives False, and the reason follows the three
\* branches in order: 404 / "not found" (any case), then 400, then
\* "Error: " with the first 100 characters of the message.
C3_ErrorBranches ==
  (TMFinished /\ TMInput.kind = "raise") =>
    LET m == TMInput.msg
        name == models[idx][1]
    IN  /\ pc = "tm_done"
        /\ result = <<FALSE>>
        /\ Len(out) = 2
        /\ out[2].model = name
        /\ IF Has(m, <<"4","0","4">>) \/ HasAnyCase(m, SNotFound)
           THEN out[2].kind = "not_available"
           ELSE IF Has(m, <<"4","0","0">>)
           THEN out[2].kind = "format_issue"
           ELSE out[2].kind = "error" /\ out[2].detail = First100(m)

\* a message with both "400" and "404" was classified by the 404 branch
C3_Witness ==
  /\ pc = "tm_done"
  /\ TMInput.kind = "raise"
  /\ Has(TMInput.msg, <<"4","0","0">>)
  /\ Has(TMInput.msg, <<"4","0","4">>)
  /\ out[2].kind = "not_available"

ReportPrinted ==
  /\ Printed("summary")
  /\ Printed("recommendation")
  /\ Printed("two_options") \/ Printed("single_option")

ErrorInFlight == pc = "parse" /\ pending.kind = "raise"

\* C4: an error raised by parse never ends the run: it is caught, the
\* candidate goes to unavailable and the loop moves on; the run then goes
\* on to probe every candidate and print summary and recommendation; a run
\* that ends without the report is one that failed the GCP_PROJECT check.
C4_ErrorsSwallowed ==
  /\ [](pc # "crashed")
  /\ [][ErrorInFlight =>
          /\ pc' = "loop"
          /\ idx' = idx + 1
          /\ available' = available
          /\ unavailable' = Append(unavailable, models[idx])]_vars
  /\ ErrorInFlight ~> (pc = "done" /\ Completed = NumModels /\ ReportPrinted)
  /\ []((pc = "done" /\ ~ReportPrinted) => ~ProjectSet)

\* an error was raised for the first candidate and the run still completed
\* with the report
C4_Witness ==
  /\ pc = "done"
  /\ ReportPrinted
  /\ Completed = NumModels
  /\ hist[1].kind = "raise"
  /\ hist[NumModels].kind = "raise"

KindsOf(lines) == [i \in 1..Len(lines) |-> lines[i].kind]

BannerKinds ==
  <<"rule", "title", "rule", "project", "region", "rule", "progress">>

\* C5: with GCP_PROJECT unset or empty the run prints the remediation
\* message only and ends without any parse call; with a non-empty
\* GCP_PROJECT, whatever GCP_REGION is, the banner is printed and probing
\* starts with the first candidate.
C5_ConfigCheck ==
  pc # "start" =>
    IF project = Unset \/ project = ""
    THEN /\ pc = "done"
         /\ KindsOf(out) = <<"error_no_project", "remediation">>
         /\ \A k \in 1..NumModels : calls[k] = 0
         /\ Completed = 0
    ELSE /\ Len(out) >= Len(BannerKinds)
         /\ KindsOf(SubSeq(out, 1, Len(BannerKinds))) = BannerKinds
         /\ (pc = "loop" /\ idx = 1) \/ calls[1] = 1

\* the empty-string project ended the run at the check
C5_Witness ==
  /\ pc = "done"
  /\ project = ""
  /\ Printed("remediation")

\* a bucket lists candidates in the order of the models list
InListOrder(bucket) ==
  /\ \A i \in 1..Len(bucket) : \E k \in 1..NumModels : models[k] = bucket[i]
  /\ \A i, j \in 1..Len(bucket) :
       i < j => ModelIdx(bucket[i][1]) < ModelIdx(bucket[j][1])

OnlyFirstSucceeds ==
  /\ Completed = NumModels
  /\ hist[1] = Returned(RespFull)
  /\ \A k \in 2..NumModels : hist[k] = Raised("RuntimeError", Msg404)

\* C6: parse is called once per candidate, in list order, and never while
\* an earlier candidate is still unclassified; each bucket keeps the list
\* order; when only gemini-1.5-flash succeeds and the others raise a 404
\* error, available is that one entry and unavailable the other six in order.
C6_OncePerCandidateInOrder ==
  /\ \A k \in 1..NumModels :
       calls[k] = (IF k < idx \/ (k = idx /\ pc = "parse") THEN 1 ELSE 0)
  /\ pc = "parse" =>
       /\ Completed = idx - 1
       /\ Len(available) + Len(unavailable) = idx - 1
  /\ InListOrder(available)
  /\ InListOrder(unavailable)
  /\ (pc = "done" /\ OnlyFirstSucceeds) =>
       /\ available = << <<"gemini-1.5-flash", "GA - Recommended">> >>
       /\ unavailable = SubSeq(models, 2, NumModels)

C6_Witness ==
  /\ pc = "done"
  /\ OnlyFirstSucceeds
  /\ Len(unavailable) = 6

HasName(bucket, name) == \E i \in 1..Len(bucket) : bucket[i][1] = name

CountKind(kind) == Cardinality({i \in 1..Len(out) : out[i].kind = kind})

\* C7: a completed run prints exactly one of the two recommendation
\* messages, the two-option one exactly when gemini-2.5-flash is in the
\* available bucket.
C7_Recommendation ==
  (pc = "done" /\ ProjectSet) =>
    /\ CountKind("two_options") + CountKind("single_option") = 1
    /\ Printed("two_options") <=> HasName(available, "gemini-2.5-flash")

\* other 2.5 candidates are available, gemini-2.5-flash is not
C7_Witness ==
  /\ pc = "done"
  /\ HasName(available, "gemini-2.5-pro")
  /\ HasName(available, "gemini-2.5-flash-lite")
  /\ ~HasName(available, "gemini-2.5-flash")
  /\ Printed("single_option")

IsTesting(l) == l.kind = "testing"

NamesOf(lines) == [i \in 1..Len(lines) |-> lines[i].model]

ModelNames == [k \in 1..NumModels |-> models[k][1]]

\* the label the models list gives a candidate name
OwnLabel(name) == models[ModelIdx(name)][2]

ExpectedBullets(bucket) ==
  [i \in 1..Len(bucket) |->
     [kind |-> "bullet", model |-> bucket[i][1], label |-> OwnLabel(bucket[i][1])]]

Shown(lines) ==
  [i \in 1..Len(lines) |->
     [kind |-> lines[i].kind, model |-> lines[i].model, label |-> lines[i].label]]

\* C8: the output of a run that passed the configuration check is: the
\* banner with project and effective region, the progress message, the
\* probe lines of all candidates in list order, the summary (counts equal
\* to the bucket lengths, each entry with its own label), then the
\* recommendation; no summary or recommendation line appears before the
\* last probe has completed.
C8_OutputSections ==
  /\ (Printed("summary") \/ Printed("recommendation") \/ Printed("bullet")
        \/ Printed("available_count") \/ Printed("unavailable_count")
        \/ Printed("two_options") \/ Printed("single_option"))
       => (Completed = NumModels /\ pc \in {"recommend", "done"})
  /\ (pc = "done" /\ ProjectSet) =>
       LET s == CHOOSE i \in 1..Len(out) : out[i].kind = "summary"
           probes == SubSeq(out, Len(BannerKinds) + 1, s - 2)
           la == Len(available)
           lu == Len(unavailable)
           t == s - 2
       IN  /\ KindsOf(SubSeq(out, 1, Len(BannerKinds))) = BannerKinds
           /\ out[4].label = project
           /\ out[5].label = (IF region = Unset THEN "us-west1" ELSE region)
           /\ CountKind("title") = 1
           /\ CountKind("progress") = 1
           /\ CountKind("summary") = 1
           /\ CountKind("recommendation") = 1
           /\ \A i \in 1..Len(probes) :
                probes[i].kind \in StatusKinds \cup {"testing", "tokens"}
           /\ NamesOf(SelectSeq(probes, IsTesting)) = ModelNames
           /\ probes[1].kind = "testing"
           /\ \A i \in 2..Len(probes) :
                \/ probes[i].model = probes[i - 1].model /\ probes[i].kind # "testing"
                \/ /\ ModelIdx(probes[i].model) = ModelIdx(probes[i - 1].model) + 1
                   /\ probes[i].kind = "testing"
           /\ Len(out) = t + 9 + la + lu
           /\ KindsOf(SubSeq(out, t + 1, t + 3)) = <<"rule", "summary", "rule">>
           /\ out[t + 4].kind = "available_count" /\ out[t + 4].n = la
           /\ Shown(SubSeq(out, t + 5, t + 4 + la)) = ExpectedBullets(available)
           /\ out[t + 5 + la].kind = "unavailable_count" /\ out[t + 5 + la].n = lu
           /\ Shown(SubSeq(out, t + 6 + la, t + 5 + la + lu)) = ExpectedBullets(unavailable)
           /\ KindsOf(SubSeq(out, t + 6 + la + lu, t + 8 + la + lu))
                = <<"rule", "recommendation", "rule">>
           /\ out[t + 9 + la + lu].kind \in {"two_options", "single_option"}

C8_Witness ==
  /\ pc = "done"
  /\ ProjectSet
  /\ region = Unset
  /\ Len(available) = 2
  /\ Len(unavailable) = 5
  /\ CountKind("bullet") = 7

\* C9 (as claimed): every completed probe printed exactly one status line
\* for its candidate, and a probe that has not completed printed none.
C9_Claim ==
  \A k \in 1..NumModels :
    Cardinality(StatusLinesOf(models[k][1])) = (IF k <= Completed THEN 1 ELSE 0)

FailureKinds == {"no_response", "not_available", "format_issue", "error"}

\* C10 (as claimed): a candidate is in the available bucket exactly when
\* "AVAILABLE and working" was printed for it, and a candidate with a
\* failure or malformed-request line is in the unavailable bucket.
C10_Claim ==
  \A k \in 1..Completed :
    LET name == models[k][1]
    IN  /\ HasName(available, name) <=> PrintedFor("available", name)
        /\ (\E f \in FailureKinds : PrintedFor(f, name)) => HasName(unavailable, name)
        /\ PrintedFor("available", name) => ~HasName(unavailable, name)

====
